---------------------------- MODULE Spec2Model ----------------------------
(***************************************************************************)
(* Shadow-geometry pipeline of S2shadowExtract.py: the histogram valley    *)
(* search (findValley) and the occluder/casted matcher                     *)
(* (castOrientation, listOccluderAndCasted).                               *)
(*                                                                         *)
(* Conventions.  Python arrays are 0-based; TLA+ sequences are 1-based, so *)
(* element j of a Python array is element j+1 of the sequence modelling    *)
(* it.  A pixel is <<row, col>>; a planar point is <<x, y>> = <<col, row>>.*)
(* Sun azimuths are drawn from the cardinal angles, for which the          *)
(* double-precision values of math.sin / math.cos are known exactly        *)
(* (cos(radians(90)) = 6.1e-17, sin(radians(180)) = 1.2e-16,               *)
(* cos(radians(270)) = -1.8e-16); the model keeps the sign of that         *)
(* residual where the code takes np.sign of an expression that is zero     *)
(* in exact arithmetic.                                                    *)
(***************************************************************************)
EXTENDS Integers, Sequences, FiniteSets, TLC

VARIABLES
    \* ---- findValley(values, base, neighbors) ----
    values,      \* histogram counts, one per bin
    base,        \* bin edges, Len(values) + 1 of them
    neighbors,   \* the neighbour count k
    dips,        \* the returned array
    vpc,         \* "idle" | "call" | "done" | "error"
    \* ---- listOccluderAndCasted(labels, sunZn, sunAz, geoTransform) ----
    nRows, nCols,  \* labels.shape
    labels,        \* label raster, pixel -> id
    sunAz, sunZn,  \* sun-angle grids, pixel -> degrees or NaN
    pc,            \* "idle" | "start" | "shapes" | "ridge" | "done" | "error"
    err,           \* the exception that ended the call, "" if none
    todo,          \* (shape, value) pairs the shapes() generator still yields
    val,           \* value of the shape being processed, 0 before the first
    polygoon,      \* pixel set of the polygon being processed
    polyBoun,      \* boundary pixel set of the polygon being processed
    ridgeI, ridgeJ,\* ridge coordinate arrays of the polygon being processed
    pos,           \* position of the for-loop in ridgeI (1-based)
    visited,       \* positions (0-based) of the ridge arrays the loop has read
    castEnd,       \* candidate coordinate list of the last pass
    occluder,      \* <<x, y>> of the ridge pixel of the last pass
    castList,      \* the records appended so far
    \* ---- getShadows(M, siz, loop) ----
    M,             \* the shadow-enhanced field, pixel -> intensity
    siz, loop,     \* window size and pass count of the median filter
    Mmed,          \* the smoothed field
    iter,          \* passes of the median loop done so far
    thresVal,      \* "val" of getShadows: the binarization threshold
    spc,           \* "idle" | "median" | "valley" | "label" | "done" | "error"
    serr,          \* the exception that ended getShadows, "" if none
    \* ---- the caller of listOccluderAndCasted ----
    run,           \* 1 in the first call, 2 in a second call on the same inputs
    firstList,     \* the list the first call returned
    \* ---- a call of one of the library functions ----
    callFn,        \* name of the function called, "" if none
    callArgs,      \* its arguments, a record
    callOut,       \* what it returned, or the name of the exception it raised
    callPc,        \* "idle" | "call" | "done" | "error"
    \* ---- the file system and the calls made on it ----
    fsDirs,        \* the directories that exist
    fsFiles,       \* the files that exist, as paths
    fsOps,         \* the downloads and changes made so far, in order
    calls          \* number of calls started

valleyVars == <<values, base, neighbors, dips, vpc>>
castVars   == <<nRows, nCols, labels, sunAz, sunZn, pc, err, todo, val, polygoon,
                polyBoun, ridgeI, ridgeJ, pos, visited, castEnd, occluder, castList>>
shadowVars == <<M, siz, loop, Mmed, iter, thresVal, spc, serr>>
runVars    == <<run, firstList>>
callVars   == <<callFn, callArgs, callOut, callPc>>
fsVars     == <<fsDirs, fsFiles, fsOps, calls>>
vars       == <<valleyVars, castVars, shadowVars, runVars, callVars, fsVars>>

\* ------------------------------------------------------------------------
\* Bounds of the model
\* ------------------------------------------------------------------------
MaxBins      == 6    \* longest histogram
MaxCount     == 2    \* largest bin count
MaxNeighbors == 2    \* largest neighbour count k
Size         == 4    \* the generic label rasters are Size x Size

\* ------------------------------------------------------------------------
\* Generic helpers
\* ------------------------------------------------------------------------
Sign(x) == IF x > 0 THEN 1 ELSE IF x < 0 THEN -1 ELSE 0

Abs(x) == IF x < 0 THEN -x ELSE x

Min(S) == CHOOSE x \in S : \A y \in S : x <= y

Max(S) == CHOOSE x \in S : \A y \in S : x >= y

SeqsUpTo(S, n) == UNION {[1..m -> S] : m \in 1..n}

\* ------------------------------------------------------------------------
\* findValley  (src/S2shadowExtract.py:303-323)
\* ------------------------------------------------------------------------
NBins == Len(values)

\* element j (0-based) of np.roll(values, shift): values[(j - shift) mod n]
Roll(shift, j) == values[((j - shift) % NBins) + 1]

\* row i (0-based) of the stacked walls, column j
wallP(i, j) == Roll(i + 1, j)
wallM(i, j) == Roll(-(i + 1), j)

\* np.all(np.sign(np.diff(wall, n=1, axis=0)) == +1, axis=0), column j
concavP(j) == \A i \in 0..(neighbors - 2) : Sign(wallP(i + 1, j) - wallP(i, j)) = 1
concavM(j) == \A i \in 0..(neighbors - 2) : Sign(wallM(i + 1, j) - wallM(i, j)) = 1

selecFull(j) == concavP(j) /\ concavM(j)

\* the 0-based indices a[start:stop] keeps of an array of length len
\* (start >= 0, stop < 0 as in the two slices of findValley)
PySlice(len, start, stop) ==
    LET hi == IF len + stop < 0 THEN 0 ELSE len + stop
    IN  {j \in 0..(len - 1) : start <= j /\ j < hi}

selecSlice == PySlice(NBins, neighbors - 1, -(neighbors + 1))
idxSlice   == PySlice(Len(base), neighbors - 1, -(neighbors + 2))

\* idx[selec]: position p of idx is kept when position p of selec is True
RECURSIVE MaskedFrom(_, _)
MaskedFrom(p, n) ==
    IF p >= n THEN <<>>
    ELSE LET jSel == (neighbors - 1) + p
             jIdx == (neighbors - 1) + p
         IN  (IF selecFull(jSel) THEN <<base[jIdx + 1]>> ELSE <<>>)
             \o MaskedFrom(p + 1, n)

findValleyDips == MaskedFrom(0, Cardinality(idxSlice))

\* the bins (0-based) whose base value findValley returns
findValleyBins == {j \in selecSlice : selecFull(j)}

\* neighbors <= 1 leaves concavP unbound at line 317 (UnboundLocalError);
\* a boolean mask of another length than idx is an IndexError
findValleyRaises ==
    IF neighbors <= 1 THEN "UnboundLocalError"
    ELSE IF Cardinality(selecSlice) # Cardinality(idxSlice) THEN "IndexError"
    ELSE ""

FindValley ==
    /\ vpc = "call"
    /\ IF findValleyRaises # ""
       THEN /\ vpc' = "error"
            /\ dips' = <<>>
       ELSE /\ vpc' = "done"
            /\ dips' = findValleyDips
    /\ UNCHANGED <<values, base, neighbors, castVars, shadowVars, runVars, fsVars, callVars>>

\* ------------------------------------------------------------------------
\* Rasters
\* ------------------------------------------------------------------------
\* NaN of the sun-angle grids (griddata leaves it outside the convex hull
\* of the tie points); a sentinel no angle in degrees takes
NaN == -999

\* if val==48: the one polygon id the loop body runs for
FilterLabel == 48

\* msk = labels>1
MaskThreshold == 1

\* the cast segment is 1e4 units long
castLength == 10000

Grid(m, n) == (0..(m - 1)) \X (0..(n - 1))

Pixels == Grid(nRows, nCols)

\* position of a pixel in C (row-major) order, the order of np.nonzero
RowMajorKey(p) == p[1] * nCols + p[2]

\* the pixels of the raster in that order
scanOrder == [k \in 1..(nRows * nCols) |-> <<(k - 1) \div nCols, (k - 1) % nCols>>]

\* the pixels of S in that order
RowMajor(S) == SelectSeq(scanOrder, LAMBDA p : p \in S)

Nbr8(p) == {<<p[1] + dr, p[2] + dc>> : dr \in -1..1, dc \in -1..1}

\* ------------------------------------------------------------------------
\* castOrientation  (src/S2shadowExtract.py:326-332)
\* ------------------------------------------------------------------------
msk == {p \in Pixels : labels[p] > MaskThreshold}

\* ndimage.convolve extends the image with mode='reflect': (b a | a b c | c b)
Reflect(i, n) == IF i < 0 THEN -i - 1 ELSE IF i >= n THEN 2 * n - 1 - i ELSE i

\* msk.astype(np.float) at (r, c), also outside the raster
Im(r, c) == IF <<Reflect(r, nRows), Reflect(c, nCols)>> \in msk THEN 1 ELSE 0

\* the smoothing column [17, 61, 17] of the kernel, in units of 1/95
KernelW(d) == IF d = 0 THEN 61 ELSE 17

\* Idx = ndimage.convolve(I, kernel): convolution flips the kernel, so the
\* west neighbours enter with +1 and the east neighbours with -1
Idx(p) ==
    LET r == p[1]
        c == p[2]
    IN    KernelW(-1) * (Im(r - 1, c - 1) - Im(r - 1, c + 1))
        + KernelW(0)  * (Im(r,     c - 1) - Im(r,     c + 1))
        + KernelW(1)  * (Im(r + 1, c - 1) - Im(r + 1, c + 1))

\* Idy = ndimage.convolve(I, np.flip(np.transpose(kernel), axis=0)):
\* the south neighbours enter with +1 and the north neighbours with -1
Idy(p) ==
    LET r == p[1]
        c == p[2]
    IN    KernelW(-1) * (Im(r + 1, c - 1) - Im(r - 1, c - 1))
        + KernelW(0)  * (Im(r + 1, c)     - Im(r - 1, c))
        + KernelW(1)  * (Im(r + 1, c + 1) - Im(r - 1, c + 1))

\* math.cos / math.sin of math.radians(az) at the cardinal angles: the
\* integer the double is next to, and the sign of what the double differs
\* from it by (cos 90 = +6.1e-17, sin 180 = +1.2e-16, cos 270 = -1.8e-16)
CosUnit(az) == CASE az = 0 -> 1 [] az = 90 -> 0 [] az = 180 -> -1 [] az = 270 -> 0
SinUnit(az) == CASE az = 0 -> 0 [] az = 90 -> 1 [] az = 180 -> 0 [] az = 270 -> -1
CosResidue(az) == CASE az = 0 -> 0 [] az = 90 -> 1 [] az = 180 -> 0 [] az = 270 -> -1
SinResidue(az) == CASE az = 0 -> 0 [] az = 90 -> 0 [] az = 180 -> 1 [] az = 270 -> 0

\* Ican = cos(az)*Idy - sin(az)*Idx at pixel p, as its leading part (units
\* of 1/95) and the sign of the part carried by the residues
castOrientation(p) ==
    LET az == sunAz[p]
    IN  [big  |-> CosUnit(az) * Idy(p) - SinUnit(az) * Idx(p),
         tiny |-> Sign(CosResidue(az) * Idy(p) - SinResidue(az) * Idx(p))]

\* mskOrient = np.sign(mskOrient) at pixel p; NaN where the azimuth is NaN
mskOrient(p) ==
    IF sunAz[p] = NaN THEN NaN
    ELSE LET o == castOrientation(p)
         IN  IF o.big # 0 THEN Sign(o.big) ELSE o.tiny

\* ------------------------------------------------------------------------
\* rasterio.features.shapes(labels, mask=msk, connectivity=8)
\* ------------------------------------------------------------------------
RECURSIVE Flood(_, _)
Flood(S, region) ==
    LET grown == S \cup ((UNION {Nbr8(p) : p \in S}) \cap region)
    IN  IF grown = S THEN S ELSE Flood(grown, region)

\* one (shape, value) pair per 8-connected component of equal value inside
\* the mask, in the order of each component's first pixel
RECURSIVE ShapesOf(_)
ShapesOf(rest) ==
    IF rest = {} THEN <<>>
    ELSE LET p    == Head(RowMajor(rest))
             comp == Flood({p}, {q \in rest : labels[q] = labels[p]})
         IN  <<[shp |-> comp, value |-> labels[p]]>> \o ShapesOf(rest \ comp)

shapes == ShapesOf(msk)

\* ------------------------------------------------------------------------
\* Ridge extraction  (src/S2shadowExtract.py:357-363)
\* ------------------------------------------------------------------------
polyRast(v) == {p \in Pixels : labels[p] = v}

\* erosion by the cross-shaped element binary_erosion takes by default
binary_erosion_cross(S) ==
    {p \in S : {<<p[1] - 1, p[2]>>, <<p[1] + 1, p[2]>>,
                <<p[1], p[2] - 1>>, <<p[1], p[2] + 1>>} \subseteq S}

\* ndimage.binary_erosion(S, np.ones((3,3))), border_value = 0
binary_erosion(S) == {p \in S : Nbr8(p) \subseteq S}

logical_xor(A, B) == (A \ B) \cup (B \ A)

polyBounOf(v) == logical_xor(polyRast(v), binary_erosion(polyRast(v)))

\* np.nonzero(polyBoun): the boundary pixels in row-major order
polyWhe(v) == RowMajor(polyBounOf(v))

\* ridge criterion "not facing away": true of a NaN orientation sign too
IsRidgeNotNegative(p) == mskOrient(p) # -1

IsRidge(p) == mskOrient(p) = 1

\* the pixels <<ridgeI[k], ridgeJ[k]>>
ridgePixels(v) == SelectSeq(polyWhe(v), IsRidge)

\* ------------------------------------------------------------------------
\* polygoon.intersection(castLine)  (src/S2shadowExtract.py:367-388)
\*
\* The polygon of a shape is the union of the closed unit squares of its
\* pixels: pixel <<r, c>> covers [c, c+1] x [r, r+1].  The cast line starts
\* at the pixel's corner <<x, y>> = <<j, i>> and runs along a grid line in
\* the direction (-sin az, +cos az); the residue of sin / cos times 1e4 in
\* its far end is below the resolution of the intersection coordinates.
\* ------------------------------------------------------------------------
\* the point of the cast line t units from its start <<x0, y0>>
RayPoint(x0, y0, az, t) == <<x0 - SinUnit(az) * t, y0 + CosUnit(az) * t>>

\* is the grid point P in the closed polygon: one of the four pixels that
\* share the corner P belongs to it
PointIn(poly, P) ==
    \E dr \in {-1, 0}, dc \in {-1, 0} : <<P[2] + dr, P[1] + dc>> \in poly

\* is the open unit interval between the adjacent grid points P and Q in the
\* closed polygon: one of the two pixels on either side of it belongs to it
UnitIn(poly, P, Q) ==
    IF P[2] = Q[2]
    THEN LET xl == IF P[1] < Q[1] THEN P[1] ELSE Q[1]
         IN  <<P[2] - 1, xl>> \in poly \/ <<P[2], xl>> \in poly
    ELSE LET yl == IF P[2] < Q[2] THEN P[2] ELSE Q[2]
         IN  <<yl, P[1] - 1>> \in poly \/ <<yl, P[1]>> \in poly

\* grid steps after which the cast line has left the raster for good
RaySteps == IF castLength < nRows + nCols + 1 THEN castLength ELSE nRows + nCols + 1

\* the intersection as its parts in order along the line: a part is the two
\* end points of a maximal segment inside the polygon, or one isolated point
PartsFrom(poly, x0, y0, az) ==
    LET P(u)     == RayPoint(x0, y0, az, u)
        In(u)    == u >= 0 /\ u < RaySteps /\ UnitIn(poly, P(u), P(u + 1))
        Starts(u) == In(u) /\ ~In(u - 1)
        Alone(u) == PointIn(poly, P(u)) /\ ~In(u) /\ ~In(u - 1)
        steps    == [k \in 1..(RaySteps + 1) |-> k - 1]
        heads    == SelectSeq(steps, LAMBDA u : Starts(u) \/ Alone(u))
    IN  [k \in DOMAIN heads |->
            LET u == heads[k]
            IN  IF Starts(u)
                THEN <<P(u), P(Min({e \in (u + 1)..RaySteps : ~In(e)}))>>
                ELSE <<P(u)>>]

\* the cast line itself, not intersected with the polygon
castLineOnly(poly, x0, y0, az) ==
    IF az = NaN THEN <<>>
    ELSE <<<<RayPoint(x0, y0, az, 0), RayPoint(x0, y0, az, castLength)>>>>

\* a NaN azimuth gives a cast line with NaN coordinates, which meets nothing
intersection(poly, x0, y0, az) ==
    IF az = NaN THEN <<>> ELSE PartsFrom(poly, x0, y0, az)

\* castEnd.geom_type
geom_type(parts) ==
    LET nLine == Cardinality({k \in DOMAIN parts : Len(parts[k]) = 2})
        nPt   == Cardinality({k \in DOMAIN parts : Len(parts[k]) = 1})
    IN  IF nLine = 0 /\ nPt = 0 THEN "Empty"
        ELSE IF nPt = 0 THEN (IF nLine = 1 THEN "LineString" ELSE "MultiLineString")
        ELSE IF nLine = 0 THEN (IF nPt = 1 THEN "Point" ELSE "MultiPoint")
        ELSE "GeometryCollection"

\* the flattened coordinate list the three branches of lines 371-385 build
RECURSIVE Flatten(_)
Flatten(parts) ==
    IF parts = <<>> THEN <<>> ELSE Head(parts) \o Flatten(Tail(parts))

\* ------------------------------------------------------------------------
\* Nearest candidate  (src/S2shadowExtract.py:390-398)
\* ------------------------------------------------------------------------
\* float('Inf'): above the square of every distance on a cast line
Inf == castLength * castLength + 1

\* Point(c).distance(occluder), squared
Dist2(P, Q) == (P[1] - Q[1]) * (P[1] - Q[1]) + (P[2] - Q[2]) * (P[2] - Q[2])

\* the distances as Point.distance returns them, zero for the ray origin
distsRaw(cEnd, occ) ==
    [k \in DOMAIN cEnd |-> Dist2(cEnd[k], occ)]

\* dists = [float('Inf') if i == 0 else i for i in dists]
dists(cEnd, occ) ==
    [k \in DOMAIN cEnd |->
        IF Dist2(cEnd[k], occ) = 0 THEN Inf ELSE Dist2(cEnd[k], occ)]

\* the first position of the largest distance
castIdxFarthest(cEnd, occ) ==
    LET d == dists(cEnd, occ)
    IN  Min({k \in DOMAIN d : \A m \in DOMAIN d : d[k] >= d[m]})

\* dists.index(min(dists)): the first position of the smallest distance
castIdx(cEnd, occ) ==
    LET d == dists(cEnd, occ)
    IN  Min({k \in DOMAIN d : \A m \in DOMAIN d : d[k] <= d[m]})

casted(cEnd, occ) == cEnd[castIdx(cEnd, occ)]

\* the record with the casted point as x, y
CastRecordXY(i, j, c) == <<i, j, c[1], c[2], sunAz[<<i, j>>], sunZn[<<i, j>>]>>

\* np.array([ridgeI[x], ridgeJ[x], casted[1], casted[0], sunAz[..], sunZn[..]])
CastRecord(i, j, c) == <<i, j, c[2], c[1], sunAz[<<i, j>>], sunZn[<<i, j>>]>>

\* lines 390-404: the records the pass appends for the candidate list cEnd
\* of the ridge pixel <<i, j>>
nearestRecs(cEnd, i, j) ==
    IF Len(cEnd) > 1 THEN <<CastRecord(i, j, casted(cEnd, <<j, i>>))>> ELSE <<>>

\* what one pass of the loop body does for the ridge pixel <<i, j>> of the
\* polygon poly: the exception it raises ("" if none), its candidate list
\* and the records it appends
castOutcome(poly, i, j) ==
    LET parts == intersection(poly, j, i, sunAz[<<i, j>>])
        gt    == geom_type(parts)
        cEnd  == Flatten(parts)
    IN  IF gt \in {"Point", "MultiPoint"}
        \* len(castEnd) of a point
        THEN [raises |-> {"TypeError"}, cEnd |-> cEnd, recs |-> <<>>]
        ELSE IF gt = "Empty"
        \* GEOS before 3.9 returns an empty GeometryCollection, whose loop
        \* leaves m unbound for "del m"; later ones an empty LineString
        THEN [raises |-> {"", "UnboundLocalError"}, cEnd |-> cEnd, recs |-> <<>>]
        \* sunZn[ridgeI[x]][ridgeJ[x]] on line 403, outside a smaller grid
        ELSE IF Len(cEnd) > 1 /\ <<i, j>> \notin DOMAIN sunZn
        THEN [raises |-> {"IndexError"}, cEnd |-> cEnd, recs |-> <<>>]
        ELSE [raises |-> {""}, cEnd |-> cEnd, recs |-> nearestRecs(cEnd, i, j)]

\* ------------------------------------------------------------------------
\* listOccluderAndCasted  (src/S2shadowExtract.py:342-407)
\* ------------------------------------------------------------------------
\* the list of the call before, left as it is
staleCastList == castList

\* line 349: castList = []
emptyCastList == <<>>

\* the shape of a grid
ShapeOf(F) ==
    <<Max({p[1] : p \in DOMAIN F}) + 1, Max({p[2] : p \in DOMAIN F}) + 1>>

\* can numpy broadcast arrays of the shapes a and b against each other
Broadcastable(a, b) ==
    \A d \in 1..2 : a[d] = b[d] \/ a[d] = 1 \/ b[d] = 1

\* lines 343-349: the mask, the orientation sign, the empty list, and the
\* generator of shapes.  np.multiply on line 331 raises a ValueError for an
\* azimuth grid it cannot broadcast against the mask; the model has no
\* azimuth grid of another shape that it can.
\* the raster with the pixels outside the mask set to 0 in place
maskedInPlace(L) == [p \in DOMAIN L |-> IF L[p] > MaskThreshold THEN L[p] ELSE 0]

\* line 344, labels = labels.astype(np.int32): astype returns a new array,
\* which the local name is bound to from here on; what the call leaves in
\* the caller's raster L
callerLabels(L) == L

Enter ==
    /\ pc = "start"
    /\ labels' = callerLabels(labels)
    /\ IF Broadcastable(ShapeOf(sunAz), <<nRows, nCols>>)
       THEN /\ todo' = shapes
            /\ castList' = emptyCastList
            /\ pc' = "shapes"
            /\ err' = err
       ELSE /\ pc' = "error"
            /\ err' = "ValueError"
            /\ UNCHANGED <<todo, castList>>
    /\ UNCHANGED <<nRows, nCols, sunAz, sunZn, val, polygoon,
                   polyBoun, ridgeI, ridgeJ, pos, visited, castEnd, occluder,
                   valleyVars, shadowVars, runVars, fsVars, callVars>>

\* lines 350-354: a shape whose value is not 48 is passed over
SkipShape ==
    /\ pc = "shapes"
    /\ todo # <<>>
    /\ Head(todo).value # FilterLabel
    /\ todo' = Tail(todo)
    /\ val' = Head(todo).value
    /\ UNCHANGED <<nRows, nCols, labels, sunAz, sunZn, pc, err, polygoon,
                   polyBoun, ridgeI, ridgeJ, pos, visited, castEnd, occluder,
                   castList, valleyVars, shadowVars, runVars, fsVars, callVars>>

\* lines 354-364: the polygon and its ridge coordinate arrays
TakeShape ==
    /\ pc = "shapes"
    /\ todo # <<>>
    /\ Head(todo).value = FilterLabel
    /\ val' = Head(todo).value
    /\ polyBoun' = polyBounOf(Head(todo).value)
    /\ LET ridge == ridgePixels(Head(todo).value)
       IN  /\ ridgeI' = [k \in DOMAIN ridge |-> ridge[k][1]]
           /\ ridgeJ' = [k \in DOMAIN ridge |-> ridge[k][2]]
           /\ pc' = IF ridge = <<>> THEN "shapes" ELSE "ridge"
    /\ polygoon' = Head(todo).shp
    /\ todo' = Tail(todo)
    /\ pos' = 1
    /\ visited' = <<>>
    /\ UNCHANGED <<nRows, nCols, labels, sunAz, sunZn, err, castEnd, occluder,
                   castList, valleyVars, shadowVars, runVars, fsVars, callVars>>

\* the position (0-based) of the ridge arrays the pass at loop position k
\* reads: "for x in ridgeI" binds x to the element, and the body reads
\* ridgeI[x], ridgeJ[x]
ridgeIndex(k) == ridgeI[k]

\* lines 366-406: one pass of the loop over ridgeI
CastRay ==
    /\ pc = "ridge"
    /\ LET x == ridgeIndex(pos)
       IN  IF x >= Len(ridgeI)
           THEN /\ pc' = "error"
                /\ err' = "IndexError"
                /\ UNCHANGED <<castList, pos, visited, castEnd, occluder>>
           ELSE LET out == castOutcome(polygoon, ridgeI[x + 1], ridgeJ[x + 1])
                IN  \E e \in out.raises :
                      /\ visited' = Append(visited, x)
                      /\ castEnd' = out.cEnd
                      /\ occluder' = <<ridgeJ[x + 1], ridgeI[x + 1]>>
                      /\ IF e # ""
                         THEN /\ pc' = "error"
                              /\ err' = e
                              /\ UNCHANGED <<castList, pos>>
                         ELSE /\ castList' = castList \o out.recs
                              /\ pos' = pos + 1
                              /\ pc' = IF pos = Len(ridgeI) THEN "shapes" ELSE "ridge"
                              /\ err' = err
    /\ UNCHANGED <<nRows, nCols, labels, sunAz, sunZn, todo, val, polygoon,
                   polyBoun, ridgeI, ridgeJ, valleyVars, shadowVars, runVars, fsVars, callVars>>

\* line 407
Return ==
    /\ pc = "shapes"
    /\ todo = <<>>
    /\ pc' = "done"
    /\ UNCHANGED <<nRows, nCols, labels, sunAz, sunZn, err, todo, val, polygoon,
                   polyBoun, ridgeI, ridgeJ, pos, visited, castEnd, occluder,
                   castList, valleyVars, shadowVars, runVars, fsVars, callVars>>

\* ------------------------------------------------------------------------
\* Inputs
\* ------------------------------------------------------------------------
\* A label raster as measure.label leaves it: every id is one 8-connected
\* region and two regions never touch.  The polygons a consecutive labelling
\* has besides are left out: the loop passes them over, and none of them is
\* inside a 3 x 3 window or on a grid line of another polygon's pixels.
\*
\* a Size x Size raster: a rectangle of h x w pixels at <<r0, c0>> with the
\* id 48, less its pixel <<r0+1, c0>> when notch; the pixel in the last row
\* and column has the id other
GenericLabels(r0, c0, h, w, notch, other) ==
    [p \in Grid(Size, Size) |->
        IF /\ r0 <= p[1] /\ p[1] < r0 + h /\ c0 <= p[2] /\ p[2] < c0 + w
           /\ ~(notch /\ p = <<r0 + 1, c0>>)
        THEN FilterLabel
        ELSE IF p = <<Size - 1, Size - 1>> THEN other ELSE 0]

\* the notch leaves the rectangle connected, and the rectangle does not
\* touch the other polygon
WellLabelled(r0, c0, h, w, notch, other) ==
    /\ notch => (h >= 2 /\ (w >= 2 \/ h = 2))
    /\ other # 0 => (r0 + h <= Size - 2 \/ c0 + w <= Size - 2)

\* a field that is a in the west half of the raster and b in the east half
HalfField(m, n, a, b) == [p \in Grid(m, n) |-> IF 2 * p[2] < n THEN a ELSE b]

Azimuths == {0, 90, 180, 270}

AzimuthPairs ==
    {<<a, a>> : a \in Azimuths \cup {NaN}}
        \cup {<<NaN, a>> : a \in Azimuths} \cup {<<a, NaN>> : a \in Azimuths}

\* the id of the other polygon, and whether the zenith has a NaN half
Variants == {<<0, FALSE>>, <<1, FALSE>>, <<2, FALSE>>, <<0, TRUE>>, <<2, TRUE>>}

callIdle ==
    /\ callFn = ""
    /\ callArgs = <<>>
    /\ callOut = <<>>
    /\ callPc = "idle"

\* no call on the file system has been made: nothing exists in it
fsIdle ==
    /\ fsDirs = {}
    /\ fsFiles = {}
    /\ fsOps = <<>>
    /\ calls = 0

runIdle ==
    /\ run = 1
    /\ firstList = <<>>

shadowIdle ==
    /\ M = <<>>
    /\ siz = 0
    /\ loop = 0
    /\ Mmed = <<>>
    /\ iter = 0
    /\ thresVal = 0
    /\ spc = "idle"
    /\ serr = ""

valleyIdle ==
    /\ values = <<>>
    /\ base = <<>>
    /\ neighbors = 0
    /\ dips = <<>>
    /\ vpc = "idle"

castFresh ==
    /\ pc = "start"
    /\ err = ""
    /\ todo = <<>>
    /\ val = 0
    /\ polygoon = {}
    /\ polyBoun = {}
    /\ ridgeI = <<>>
    /\ ridgeJ = <<>>
    /\ pos = 1
    /\ visited = <<>>
    /\ castEnd = <<>>
    /\ occluder = <<>>
    /\ castList = <<>>

InitGeneric ==
    /\ nRows = Size
    /\ nCols = Size
    /\ \E r0 \in 0..(Size - 1), c0 \in 0..(Size - 1) :
         \E h \in 1..(Size - r0), w \in 1..(Size - c0) :
           \E notch \in BOOLEAN, v \in Variants :
             /\ WellLabelled(r0, c0, h, w, notch, v[1])
             /\ labels = GenericLabels(r0, c0, h, w, notch, v[1])
             /\ sunZn = HalfField(Size, Size, IF v[2] THEN NaN ELSE 45, 45)
    /\ \E az \in AzimuthPairs : sunAz = HalfField(Size, Size, az[1], az[2])

\* the square-polygon scenario: a filled 20 x 20 block at rows 10-29, cols
\* 10-29 of a 50 x 50 raster, azimuth 90, zenith 45; the block has the id 1
\* of the scenario or the id 48 the loop body runs for
InitSquare ==
    /\ nRows = 50
    /\ nCols = 50
    /\ \E id \in {1, FilterLabel} :
         labels = [p \in Grid(50, 50) |->
                      IF p[1] \in 10..29 /\ p[2] \in 10..29 THEN id ELSE 0]
    /\ sunAz = [p \in Grid(50, 50) |-> 90]
    /\ sunZn = [p \in Grid(50, 50) |-> 45]

Init ==
    /\ valleyIdle
    /\ shadowIdle
    /\ runIdle
    /\ fsIdle
    /\ callIdle
    /\ castFresh
    /\ (InitGeneric \/ InitSquare)

\* line 473 once more: the caller keeps the returned list and calls
\* listOccluderAndCasted again with the same arguments; the locals of the
\* first call are gone, the list object it built is still there
Rerun ==
    /\ pc = "done"
    /\ run = 1
    /\ firstList' = castList
    /\ run' = 2
    /\ pc' = "start"
    /\ err' = ""
    /\ todo' = <<>>
    /\ val' = 0
    /\ polygoon' = {}
    /\ polyBoun' = {}
    /\ ridgeI' = <<>>
    /\ ridgeJ' = <<>>
    /\ pos' = 1
    /\ visited' = <<>>
    /\ castEnd' = <<>>
    /\ occluder' = <<>>
    /\ UNCHANGED <<nRows, nCols, labels, sunAz, sunZn, castList, valleyVars,
                   shadowVars, callVars, fsVars>>

Next == Enter \/ SkipShape \/ TakeShape \/ CastRay \/ Return \/ Rerun

\* ------------------------------------------------------------------------
\* Specification of calls with sun-angle grids of another extent than the
\* label raster: one of the two grids has one row and column more or less
\* ------------------------------------------------------------------------
ExtentDeltas == {<<1, 0>>, <<-1, 0>>, <<0, 1>>, <<0, -1>>}

InitExtent ==
    /\ valleyIdle
    /\ shadowIdle
    /\ runIdle
    /\ fsIdle
    /\ callIdle
    /\ castFresh
    /\ nRows = Size
    /\ nCols = Size
    /\ \E r0 \in 0..(Size - 1), c0 \in 0..(Size - 1) :
         \E h \in 1..(Size - r0), w \in 1..(Size - c0), other \in {0, 2} :
             /\ WellLabelled(r0, c0, h, w, FALSE, other)
             /\ labels = GenericLabels(r0, c0, h, w, FALSE, other)
    /\ \E az \in {0, 180}, d \in ExtentDeltas :
         /\ sunAz = [p \in Grid(Size + d[1], Size + d[1]) |-> az]
         /\ sunZn = [p \in Grid(Size + d[2], Size + d[2]) |-> 45]

SpecExtent == InitExtent /\ [][Next]_vars

Spec == Init /\ [][Next]_vars

\* ------------------------------------------------------------------------
\* Specification of calls on a polygon a cast line crosses more than once,
\* on a 5 x 6 raster: a bar in row 1 (cols 1-4) and a bar in row 3
\* (cols 2-4), joined by the pixel <<2, 4>>, and the pixel <<2, 0>> that
\* touches the upper bar by its corner; the pixels <<2, 2>> and <<2, 3>>
\* between the bars belong to the polygon when filled; the pixel <<4, 5>>
\* has the id other
\* ------------------------------------------------------------------------
CrossingPolygon(filled) ==
    {<<1, 1>>, <<1, 2>>, <<1, 3>>, <<1, 4>>, <<2, 0>>, <<2, 4>>,
     <<3, 2>>, <<3, 3>>, <<3, 4>>}
        \cup (IF filled THEN {<<2, 2>>, <<2, 3>>} ELSE {})

CrossingLabels(filled, other) ==
    [p \in Grid(5, 6) |->
        IF p \in CrossingPolygon(filled) THEN FilterLabel
        ELSE IF p = <<4, 5>> THEN other ELSE 0]

InitCrossing ==
    /\ valleyIdle
    /\ shadowIdle
    /\ runIdle
    /\ fsIdle
    /\ callIdle
    /\ castFresh
    /\ nRows = 5
    /\ nCols = 6
    /\ \E filled \in BOOLEAN, other \in {0, 1, 2} :
         labels = CrossingLabels(filled, other)
    /\ \E az \in AzimuthPairs : sunAz = HalfField(5, 6, az[1], az[2])
    /\ \E zn \in {45, NaN} : sunZn = HalfField(5, 6, zn, 45)

SpecCrossing == InitCrossing /\ [][Next]_vars

\* ------------------------------------------------------------------------
\* Specification of a call of findValley
\* ------------------------------------------------------------------------
\* the n + 1 equally spaced bin edges np.histogram returns with n counts
BinEdges(n, lo, step) == [j \in 1..(n + 1) |-> lo + (j - 1) * step]

\* the histogram of the valley scenario
ScenarioValues == <<5, 1, 0, 1, 5, 9, 5, 1, 0, 1, 5>>

castIdle ==
    /\ nRows = 0
    /\ nCols = 0
    /\ labels = <<>>
    /\ sunAz = <<>>
    /\ sunZn = <<>>
    /\ pc = "idle"
    /\ err = ""
    /\ todo = <<>>
    /\ val = 0
    /\ polygoon = {}
    /\ polyBoun = {}
    /\ ridgeI = <<>>
    /\ ridgeJ = <<>>
    /\ pos = 1
    /\ visited = <<>>
    /\ castEnd = <<>>
    /\ occluder = <<>>
    /\ castList = <<>>

InitValley ==
    /\ castIdle
    /\ shadowIdle
    /\ runIdle
    /\ fsIdle
    /\ callIdle
    /\ vpc = "call"
    /\ dips = <<>>
    /\ values \in SeqsUpTo(0..MaxCount, MaxBins) \cup {ScenarioValues}
    /\ neighbors \in 1..MaxNeighbors
    /\ \E e \in {<<0, 1>>, <<10, 5>>} : base = BinEdges(Len(values), e[1], e[2])

NextValley == FindValley

SpecValley == InitValley /\ [][NextValley]_vars

\* ------------------------------------------------------------------------
\* Specification of the nearest-candidate step (lines 390-404) by itself
\* ------------------------------------------------------------------------
MaxCandidates == 3    \* longest candidate list
MaxCoord      == 1    \* largest coordinate of a candidate point

\* the step for the candidate list and the ridge pixel in the state
Nearest ==
    /\ pc = "nearest"
    /\ castList' = castList \o nearestRecs(castEnd, occluder[2], occluder[1])
    /\ pc' = "done"
    /\ UNCHANGED <<nRows, nCols, labels, sunAz, sunZn, err, todo, val, polygoon,
                   polyBoun, ridgeI, ridgeJ, pos, visited, castEnd, occluder,
                   valleyVars, shadowVars, runVars, fsVars, callVars>>

InitNearest ==
    /\ valleyIdle
    /\ shadowIdle
    /\ runIdle
    /\ fsIdle
    /\ callIdle
    /\ nRows = MaxCoord + 1
    /\ nCols = MaxCoord + 1
    /\ labels = [p \in Grid(MaxCoord + 1, MaxCoord + 1) |-> FilterLabel]
    /\ sunAz = [p \in Grid(MaxCoord + 1, MaxCoord + 1) |-> 0]
    /\ sunZn = [p \in Grid(MaxCoord + 1, MaxCoord + 1) |-> 45]
    /\ pc = "nearest"
    /\ err = ""
    /\ todo = <<>>
    /\ val = FilterLabel
    /\ polygoon = Grid(MaxCoord + 1, MaxCoord + 1)
    /\ polyBoun = {}
    /\ ridgeI = <<>>
    /\ ridgeJ = <<>>
    /\ pos = 1
    /\ visited = <<>>
    /\ castEnd \in SeqsUpTo((0..MaxCoord) \X (0..MaxCoord), MaxCandidates)
    /\ occluder \in (0..MaxCoord) \X (0..MaxCoord)
    /\ castList = <<>>

NextNearest == Nearest

SpecNearest == InitNearest /\ [][NextNearest]_vars

\* ------------------------------------------------------------------------
\* getShadows  (src/S2shadowExtract.py:289-301)
\*
\* Intensities are integers.  The bin edges np.histogram returns are
\* lo + i * (hi - lo) / bins; the model keeps them in units of
\* 1 / (2 * bins), in which they are integers, and compares an intensity v
\* with an edge as v * 2 * bins.
\* ------------------------------------------------------------------------
MCols   == 3    \* the fields M are 2 x MCols
MaxLoop == 2    \* largest pass count

\* ndimage.median_filter(F, size=s), mode='reflect', s odd: the element of
\* rank s*s // 2 of the sorted window
median_filter(F, s) ==
    [p \in DOMAIN F |->
        LET h     == s \div 2
            W     == (-h..h) \X (-h..h)
            wv(d) == F[<<Reflect(p[1] + d[1], nRows), Reflect(p[2] + d[2], nCols)>>]
        IN  CHOOSE v \in {wv(d) : d \in W} :
                /\ Cardinality({d \in W : wv(d) < v}) <= (s * s) \div 2
                /\ Cardinality({d \in W : wv(d) <= v}) > (s * s) \div 2]

\* lines 292-293: one pass of "for i in range(loop)"; the filter is handed M
MedianPass ==
    /\ spc = "median"
    /\ iter < loop
    /\ Mmed' = median_filter(M, siz)
    /\ iter' = iter + 1
    /\ UNCHANGED <<M, siz, loop, thresVal, spc, serr, castVars, valleyVars, runVars, fsVars, callVars>>

\* is 2^e >= x, for x below 2^31
PowerOfTwoAtLeast(e, x) == IF e < 0 THEN FALSE ELSE IF e >= 31 THEN TRUE ELSE 2 ^ e >= x

\* np.int(np.ceil(1.6*(math.log2(mn)+1))): the least b with
\* 5 * b - 8 >= 8 * log2(mn), that is 2^(5b - 8) >= mn^8
RECURSIVE sturgeFrom(_, _)
sturgeFrom(b, mn) ==
    IF PowerOfTwoAtLeast(5 * b - 8, mn ^ 8) THEN b ELSE sturgeFrom(b + 1, mn)

\* the rule without the factor 1.6: the least b with b >= log2(mn) + 1
sturgePlain(mn) == Min({b \in 1..30 : 2 ^ (b - 1) >= mn})

sturge(mn) == sturgeFrom(1, mn)

\* the range np.histogram bins: [min, max], or [min - 0.5, max + 0.5] when
\* the two are equal; times two
histRange(F) ==
    LET lo == Min({F[p] : p \in DOMAIN F})
        hi == Max({F[p] : p \in DOMAIN F})
    IN  IF lo = hi THEN <<2 * lo - 1, 2 * hi + 1>> ELSE <<2 * lo, 2 * hi>>

\* the bins + 1 edges
histBase(F, bins) ==
    LET r == histRange(F)
    IN  [i \in 1..(bins + 1) |-> r[1] * bins + (i - 1) * (r[2] - r[1])]

\* the bin (0-based) of the intensity v: the last bin is closed on the right
histBin(F, bins, v) ==
    LET e == histBase(F, bins)
    IN  Max({i \in 0..(bins - 1) : e[i + 1] <= v * 2 * bins})

\* the bins counts
histValues(F, bins) ==
    [i \in 1..bins |-> Cardinality({p \in DOMAIN F : histBin(F, bins, F[p]) = i - 1})]

\* lines 290, 294-297: the histogram of the smoothed field and the call
\* findValley(values, base, 2)
Histogram ==
    /\ spc = "median"
    /\ iter = loop
    /\ LET bins == sturge(Cardinality(DOMAIN M))
       IN  /\ values' = histValues(Mmed, bins)
           /\ base' = histBase(Mmed, bins)
    /\ neighbors' = 2
    /\ vpc' = "call"
    /\ dips' = <<>>
    /\ spc' = "valley"
    /\ UNCHANGED <<M, siz, loop, Mmed, iter, thresVal, serr, castVars, runVars, fsVars, callVars>>

\* line 298: val = max(dips), a ValueError for an empty dips
Threshold ==
    /\ spc = "valley"
    /\ vpc \in {"done", "error"}
    /\ IF vpc = "error"
       THEN /\ spc' = "error"
            /\ serr' = findValleyRaises
            /\ UNCHANGED thresVal
       ELSE IF dips = <<>>
       THEN /\ spc' = "error"
            /\ serr' = "ValueError"
            /\ UNCHANGED thresVal
       ELSE /\ spc' = "label"
            /\ thresVal' = Max({dips[k] : k \in DOMAIN dips})
            /\ UNCHANGED serr
    /\ UNCHANGED <<M, siz, loop, Mmed, iter, castVars, valleyVars, runVars, fsVars, callVars>>

\* the comparison the other way round: the field below the threshold
imSeparationBelow == {p \in DOMAIN Mmed : Mmed[p] * 2 * NBins < thresVal}

\* line 299: imSeparation = Mmed > val
imSeparation == {p \in DOMAIN Mmed : Mmed[p] * 2 * NBins > thresVal}

\* measure.label(fg, background=0): the 8-connected components of fg get the
\* ids 1, 2, ... in the order of their first pixels
RECURSIVE labelFrom(_, _, _)
labelFrom(rest, id, acc) ==
    IF rest = {} THEN acc
    ELSE LET comp == Flood({Head(RowMajor(rest))}, rest)
         IN  labelFrom(rest \ comp, id + 1,
                       [p \in DOMAIN acc |-> IF p \in comp THEN id ELSE acc[p]])

measure_label(fg) == labelFrom(fg, 1, [p \in Pixels |-> 0])

\* lines 299-301: the label raster getShadows returns
Label ==
    /\ spc = "label"
    /\ labels' = measure_label(imSeparation)
    /\ spc' = "done"
    /\ UNCHANGED <<nRows, nCols, sunAz, sunZn, pc, err, todo, val, polygoon,
                   polyBoun, ridgeI, ridgeJ, pos, visited, castEnd, occluder,
                   castList, M, siz, loop, Mmed, iter, thresVal, serr, valleyVars, runVars, fsVars, callVars>>

\* np.int16(x) of a wider integer: the low 16 bits, signed
int16(x) == ((x + 32768) % 65536) - 32768

\* lines 284-287: the label raster getShadowPolygon returns.  With sizPix = 1
\* and no smoothing its histogram is the one above, of the superpixel-mean
\* image meanIm, which M stands for.
LabelPolygon ==
    /\ spc = "label"
    /\ loop = 0
    /\ labels' = [p \in Pixels |-> int16(measure_label(imSeparation)[p])]
    /\ spc' = "done"
    /\ UNCHANGED <<nRows, nCols, sunAz, sunZn, pc, err, todo, val, polygoon,
                   polyBoun, ridgeI, ridgeJ, pos, visited, castEnd, occluder,
                   castList, M, siz, loop, Mmed, iter, thresVal, serr, valleyVars, runVars, fsVars, callVars>>

\* the intensities of the fields: with two of them or more apart, the
\* histogram has empty bins between occupied ones
Levels == {0, 4, 6}

InitShadows ==
    /\ valleyIdle
    /\ runIdle
    /\ fsIdle
    /\ callIdle
    /\ nRows = 2
    /\ nCols = MCols
    /\ labels = <<>>
    /\ sunAz = <<>>
    /\ sunZn = <<>>
    /\ pc = "idle"
    /\ err = ""
    /\ todo = <<>>
    /\ val = 0
    /\ polygoon = {}
    /\ polyBoun = {}
    /\ ridgeI = <<>>
    /\ ridgeJ = <<>>
    /\ pos = 1
    /\ visited = <<>>
    /\ castEnd = <<>>
    /\ occluder = <<>>
    /\ castList = <<>>
    /\ M \in [Grid(2, MCols) -> Levels]
    /\ siz \in {1, 3}
    /\ loop \in 0..MaxLoop
    /\ Mmed = M
    /\ iter = 0
    /\ thresVal = 0
    /\ spc = "median"
    /\ serr = ""

NextShadows ==
    MedianPass \/ Histogram \/ FindValley \/ Threshold \/ Label \/ LabelPolygon

SpecShadows == InitShadows /\ [][NextShadows]_vars

\* ------------------------------------------------------------------------
\* make_fourier_grid
\* (src/eratosthenes/processing/matching_tools_frequency_filters.py:108-173)
\*
\* An array is a function on Grid(rows, cols).  A coordinate is the record
\* [num, den, times] for the number num / den * times, times being "2pi",
\* "2" or "1".
\* ------------------------------------------------------------------------
MaxDim == 6    \* largest extent of the spectrum Q

\* every other variable at rest
pipelineIdle ==
    /\ valleyIdle
    /\ shadowIdle
    /\ runIdle
    /\ fsIdle
    /\ castIdle

\* lines 164-169: the factor of the coordinate system
systemFactor(system) ==
    IF system = "radians" THEN "2pi" ELSE IF system = "unit" THEN "2" ELSE "1"

\* np.fft.fftshift of a 2-D array: a roll by half the extent along each axis
fftshift(F) ==
    LET sh == ShapeOf(F)
    IN  [p \in DOMAIN F |->
            F[<<(p[1] - sh[1] \div 2) % sh[1], (p[2] - sh[2] \div 2) % sh[2]>>]]

\* lines 151-156: np.meshgrid(arange(0,n)-(n//2), arange(0,m)-(m//2),
\* indexing='ij') has the shape (n, m); F_1, F_2 = I_grd/n, J_grd/m
fourierGridIJ(m, n, t) ==
    <<[p \in Grid(n, m) |-> [num |-> p[1] - n \div 2, den |-> n, times |-> t]],
      [p \in Grid(n, m) |-> [num |-> p[2] - m \div 2, den |-> m, times |-> t]]>>

\* lines 157-162: fy = flip((arange(0,m)-(m/2))/m), fx = (arange(0,n)-(n/2))/n,
\* repeated to the shape (m, n)
fourierGridXY(m, n, t) ==
    <<[p \in Grid(m, n) |-> [num |-> 2 * p[2] - n, den |-> 2 * n, times |-> t]],
      [p \in Grid(m, n) |->
          [num |-> 2 * (m - 1 - p[1]) - m, den |-> 2 * m, times |-> t]]>>

make_fourier_grid(m, n, indexing, system) ==
    LET F == IF indexing = "ij"
             THEN fourierGridIJ(m, n, systemFactor(system))
             ELSE fourierGridXY(m, n, systemFactor(system))
    IN  <<fftshift(F[1]), fftshift(F[2])>>

MakeFourierGrid ==
    /\ callPc = "call"
    /\ callFn = "make_fourier_grid"
    /\ callOut' = make_fourier_grid(callArgs.m, callArgs.n, callArgs.indexing,
                                    callArgs.system)
    /\ callPc' = "done"
    /\ UNCHANGED <<callFn, callArgs, valleyVars, castVars, shadowVars, runVars, fsVars>>

InitFourier ==
    /\ pipelineIdle
    /\ callFn = "make_fourier_grid"
    /\ callArgs \in [m : 1..MaxDim, n : 1..MaxDim, indexing : {"ij", "xy"},
                     system : {"radians", "unit", "normalized"}]
    /\ callOut = <<>>
    /\ callPc = "call"

NextFourier == MakeFourierGrid

SpecFourier == InitFourier /\ [][NextFourier]_vars

\* ------------------------------------------------------------------------
\* bad_point_propagation
\* (src/dhdt/processing/geometric_correction_measures.py:56-86)
\*
\* Misfits are integer pairs.  With k points, S the matrix of the sums
\* k * sum(a*b) - sum(a) * sum(b), the covariance is S / (k(k-1)), and
\* x' inv(r * cov) x < 1 is k(k-1) * x' adj(S) x < r * det(S) for a positive
\* det(S).
\* ------------------------------------------------------------------------
MaxPoints == 4    \* largest number of misfits
MaxMisfit == 1    \* largest coordinate of a misfit
MaxRadius == 3    \* largest radius r

\* the sum of f[1] .. f[n]
RECURSIVE SumTo(_, _)
SumTo(f, n) == IF n = 0 THEN 0 ELSE f[n] + SumTo(f, n - 1)

\* line 78: k(k-1) times the entry (a, b) of np.cov(dXY, rowvar=False)
covSums(dXY, a, b) ==
    LET k == Len(dXY)
    IN  k * SumTo([i \in 1..k |-> dXY[i][a] * dXY[i][b]], k)
          - SumTo([i \in 1..k |-> dXY[i][a]], k) * SumTo([i \in 1..k |-> dXY[i][b]], k)

covDet(dXY) ==
    covSums(dXY, 1, 1) * covSums(dXY, 2, 2) - covSums(dXY, 1, 2) * covSums(dXY, 1, 2)

\* lines 83-85: D < 1 for the point i
bppInside(dXY, r, i) ==
    LET k == Len(dXY)
        x == dXY[i][1]
        y == dXY[i][2]
        q == covSums(dXY, 2, 2) * x * x - 2 * covSums(dXY, 1, 2) * x * y
               + covSums(dXY, 1, 1) * y * y
    IN  k * (k - 1) * q < r * covDet(dXY)

\* line 77: n = dXY.shape[1], the number of columns
bppDivisor(dXY) == 2

\* what the call gives: the exception it raises, or np.sum(D<1) / n as the
\* fraction num / den.  For
\* collinear misfits the covariance is singular: np.linalg.inv raises
\* LinAlgError, or inverts a matrix that rounding left regular, after which
\* any number of points can come out inside
bad_point_propagation(dXY, r) ==
    IF covDet(dXY) = 0
    THEN {[raises |-> "LinAlgError", num |-> 0, den |-> 1]}
           \cup {[raises |-> "", num |-> c, den |-> bppDivisor(dXY)] : c \in 0..Len(dXY)}
    ELSE {[raises |-> "",
           num |-> Cardinality({i \in DOMAIN dXY : bppInside(dXY, r, i)}),
           den |-> bppDivisor(dXY)]}

BadPointPropagation ==
    /\ callPc = "call"
    /\ callFn = "bad_point_propagation"
    /\ \E out \in bad_point_propagation(callArgs.dXY, callArgs.r) :
         /\ callOut' = out
         /\ callPc' = IF out.raises # "" THEN "error" ELSE "done"
    /\ UNCHANGED <<callFn, callArgs, valleyVars, castVars, shadowVars, runVars, fsVars>>

InitBPP ==
    /\ pipelineIdle
    /\ callFn = "bad_point_propagation"
    /\ \E d \in SeqsUpTo((-MaxMisfit..MaxMisfit) \X (-MaxMisfit..MaxMisfit), MaxPoints),
          r \in 1..MaxRadius :
         /\ Len(d) >= 2
         /\ callArgs = [dXY |-> d, r |-> r]
    /\ callOut = <<>>
    /\ callPc = "call"

NextBPP == BadPointPropagation

SpecBPP == InitBPP /\ [][NextBPP]_vars

\* ------------------------------------------------------------------------
\* The bin count of the two segmentation variants
\* (src/S2shadowExtract.py:264-279 and 289-296)
\* ------------------------------------------------------------------------
MaxPixels == 12   \* largest number of pixels of the field M
MaxSizPix == 3    \* largest superpixel size sizPix

\* np.ceil(np.divide(a, b)) for positive integers
CeilDiv(a, b) == (a + b - 1) \div b

\* getShadows, lines 290 and 294-296: mn = M.size
getShadowsBins(shape) == sturge(shape[1] * shape[2])

\* getShadowPolygon, lines 265 and 277-279:
\* mn = np.ceil(np.divide(np.nanprod(M.shape), sizPix))
getShadowPolygonBins(shape, sizPix) ==
    sturge(CeilDiv(shape[1] * shape[2], sizPix))

GetShadowsBins ==
    /\ callPc = "call"
    /\ callFn = "getShadows"
    /\ callOut' = getShadowsBins(callArgs.shape)
    /\ callPc' = "done"
    /\ UNCHANGED <<callFn, callArgs, valleyVars, castVars, shadowVars, runVars, fsVars>>

GetShadowPolygonBins ==
    /\ callPc = "call"
    /\ callFn = "getShadowPolygon"
    /\ callOut' = getShadowPolygonBins(callArgs.shape, callArgs.sizPix)
    /\ callPc' = "done"
    /\ UNCHANGED <<callFn, callArgs, valleyVars, castVars, shadowVars, runVars, fsVars>>

InitBins ==
    /\ pipelineIdle
    /\ callFn \in {"getShadows", "getShadowPolygon"}
    /\ \E m \in 1..MaxPixels, n \in 1..MaxPixels, sizPix \in 1..MaxSizPix :
         /\ m * n <= MaxPixels
         /\ callArgs = [shape |-> <<m, n>>, sizPix |-> sizPix]
    /\ callOut = <<>>
    /\ callPc = "call"

NextBins == GetShadowsBins \/ GetShadowPolygonBins

SpecBins == InitBins /\ [][NextBins]_vars

\* ------------------------------------------------------------------------
\* The coastal dataset  (src/dhdt/auxilary/handler_coastal.py)
\*
\* A file name is a record of its parts, a directory a record [dir, sub]
\* with sub = "" for the directory dir itself, a path a record
\* [dir, sub, name].  fsOps lists every download, directory creation, write
\* and removal in the order it was made.
\* ------------------------------------------------------------------------
MaxCalls      == 2   \* calls made in a row with the same arguments
ArchiveLevels == 4   \* levels L1, L2, ... the archive has per resolution

\* line 54: resolution in ('f','h','i','l','c',)
Resolutions == {"f", "h", "i", "l", "c"}

ResolutionSeq == <<"f", "h", "i", "l", "c">>

NoName == [stem |-> "", res |-> "", level |-> 0, ext |-> ""]

\* lines 57-58: 'GSHHS_' + resolution + '_L' + str(minimal_level) + '.geojson'
DefaultName(res, level) ==
    [stem |-> "GSHHS", res |-> res, level |-> level, ext |-> "geojson"]

\* lines 68-69: 'GSHHS_shp' + os.sep + resolution, and
\* 'GSHHS_' + resolution + '_L' + str(level+1) + '.shp'
ShapeDir(res) ==
    CASE res = "f" -> "GSHHS_shp/f" [] res = "h" -> "GSHHS_shp/h"
      [] res = "i" -> "GSHHS_shp/i" [] res = "l" -> "GSHHS_shp/l"
      [] res = "c" -> "GSHHS_shp/c"

ShapeName(res, level) ==
    [stem |-> "GSHHS", res |-> res, level |-> level, ext |-> "shp"]

\* a name of the caller's own choice
CustomName == [stem |-> "coast", res |-> "", level |-> 0, ext |-> "geojson"]

\* os.path.join(geom_dir, geom_name), geom_name a relative path
Join(dir, rel) == [dir |-> dir, sub |-> rel.sub, name |-> rel.name]

Dir(dir, sub) == [dir |-> dir, sub |-> sub]

Op(op, dir, sub, name) == [op |-> op, dir |-> dir, sub |-> sub, name |-> name]

\* line 65, get_zip_file(gshhg_url, dump_dir=geom_dir): the names of the
\* files of the archive, relative to dump_dir, as lines 83-84 take them
zipFileList ==
    [k \in 1..(Len(ResolutionSeq) * ArchiveLevels) |->
        LET res   == ResolutionSeq[((k - 1) \div ArchiveLevels) + 1]
            level == ((k - 1) % ArchiveLevels) + 1
        IN  [sub |-> ShapeDir(res), name |-> ShapeName(res, level)]]

\* the file system after get_zip_file has unpacked the archive in dir
unzipDirs(dirs, dir) ==
    dirs \cup {Dir(dir, zipFileList[k].sub) : k \in DOMAIN zipFileList}

unzipFiles(files, dir) ==
    files \cup {Join(dir, zipFileList[k]) : k \in DOMAIN zipFileList}

\* lines 83-84: for f in file_list: os.remove(os.path.join(geom_dir, f))
removeOps(dir) ==
    [k \in DOMAIN zipFileList |->
        Op("remove", dir, zipFileList[k].sub, zipFileList[k].name)]

\* the assertions without the one on the range of minimal_level
coastalAssertionNoRange(minimal_level, resolution) ==
    IF ~minimal_level.int THEN "please provide an integer"
    ELSE IF resolution \notin Resolutions THEN "please provide correct letter"
    ELSE ""

\* lines 52-54: the assertion that fails, "" if none.  minimal_level is a
\* record of whether it is an int and of its value
coastalAssertion(minimal_level, resolution) ==
    IF ~minimal_level.int THEN "please provide an integer"
    ELSE IF ~(0 < minimal_level.v /\ minimal_level.v < 5) THEN "please provide correct detail"
    ELSE IF resolution \notin Resolutions THEN "please provide correct letter"
    ELSE ""

\* lines 56-60: the path ffull
coastalTarget(a) ==
    IF a.geom_name.given
    THEN Join(a.geom_dir, a.geom_name)
    ELSE Join(a.geom_dir, [sub |-> "", name |-> DefaultName(a.resolution, a.minimal_level.v)])

\* os.makedirs whether or not the directory exists
makedirsAlways(dir) == <<Op("mkdir", dir, "", NoName)>>

\* lines 55 and 95: if not os.path.isdir(d): os.makedirs(d)
makedirsOps(dir) ==
    IF Dir(dir, "") \in fsDirs THEN <<>> ELSE <<Op("mkdir", dir, "", NoName)>>

\* lines 52-85, get_coastal_dataset: the outcomes of a call with the
\* arguments a, each with the file system it leaves.  The download either
\* succeeds or raises; every shapefile read is in the archive.
get_coastal_dataset(a) ==
    LET failed == coastalAssertion(a.minimal_level, a.resolution)
        ffull  == coastalTarget(a)
        dirs1  == fsDirs \cup {Dir(a.geom_dir, "")}
        ops1   == fsOps \o makedirsOps(a.geom_dir)
    IN  IF failed # ""
        THEN {[raises |-> "AssertionError", out |-> failed,
               dirs |-> fsDirs, files |-> fsFiles, ops |-> fsOps]}
        ELSE IF ffull \in fsFiles
        THEN {[raises |-> "", out |-> ffull,
               dirs |-> dirs1, files |-> fsFiles, ops |-> ops1]}
        ELSE {[raises |-> "URLError", out |-> "urlopen error",
               dirs |-> dirs1, files |-> fsFiles, ops |-> ops1],
              IF Dir(ffull.dir, ffull.sub) \in unzipDirs(dirs1, a.geom_dir)
              THEN [raises |-> "", out |-> ffull,
                    dirs  |-> unzipDirs(dirs1, a.geom_dir),
                    files |-> (unzipFiles(fsFiles, a.geom_dir) \cup {ffull})
                                 \ {Join(a.geom_dir, zipFileList[k]) : k \in DOMAIN zipFileList},
                    ops   |-> ops1 \o <<Op("download", a.geom_dir, "", NoName),
                                        Op("write", ffull.dir, ffull.sub, ffull.name)>>
                                   \o removeOps(a.geom_dir)]
              ELSE [raises |-> "DriverError", out |-> "No such file or directory",
                    dirs  |-> unzipDirs(dirs1, a.geom_dir),
                    files |-> unzipFiles(fsFiles, a.geom_dir),
                    ops   |-> ops1 \o <<Op("download", a.geom_dir, "", NoName)>>]}

GetCoastalDataset ==
    /\ callPc = "call"
    /\ callFn = "get_coastal_dataset"
    /\ \E o \in get_coastal_dataset(callArgs) :
         /\ callOut' = o.out
         /\ callPc' = IF o.raises = "" THEN "done" ELSE "error"
         /\ fsDirs' = o.dirs
         /\ fsFiles' = o.files
         /\ fsOps' = o.ops
    /\ UNCHANGED <<callFn, callArgs, calls, valleyVars, castVars, shadowVars, runVars>>

\* lines 118-119: the name of the output file,
\* geom_name.split('.')[0] + '_utm' + str(utm_zone).zfill(2) + '.geojson'
tileName(name) == [name EXCEPT !.ext = "utm.geojson"]

\* lines 87-123, get_coastal_polygon_of_tile for a valid MGRS tile code:
\* the outcome of a call with the arguments a
get_coastal_polygon_of_tile(a) ==
    LET dirs1     == fsDirs \cup {Dir(a.out_dir, "")}
        ops1      == fsOps \o makedirsOps(a.out_dir)
        geom_path == Join(a.geom_dir, a.geom_name)
        fout      == Join(a.out_dir, [sub |-> "", name |-> tileName(a.geom_name.name)])
    IN  IF geom_path \notin fsFiles
        THEN [raises |-> "AssertionError", out |-> "make sure data is present",
              dirs |-> dirs1, files |-> fsFiles, ops |-> ops1]
        ELSE [raises |-> "", out |-> "None",
              dirs |-> dirs1, files |-> fsFiles \cup {fout},
              ops |-> Append(ops1, Op("write", fout.dir, fout.sub, fout.name))]

GetCoastalPolygonOfTile ==
    /\ callPc = "call"
    /\ callFn = "get_coastal_polygon_of_tile"
    /\ LET o == get_coastal_polygon_of_tile(callArgs)
       IN  /\ callOut' = o.out
           /\ callPc' = IF o.raises = "" THEN "done" ELSE "error"
           /\ fsDirs' = o.dirs
           /\ fsFiles' = o.files
           /\ fsOps' = o.ops
    /\ UNCHANGED <<callFn, callArgs, calls, valleyVars, castVars, shadowVars, runVars>>

\* the caller makes the same call once more
CallAgain ==
    /\ callPc \in {"done", "error"}
    /\ callFn \in {"get_coastal_dataset", "get_coastal_polygon_of_tile"}
    /\ calls < MaxCalls
    /\ calls' = calls + 1
    /\ callPc' = "call"
    /\ callOut' = <<>>
    /\ UNCHANGED <<callFn, callArgs, fsDirs, fsFiles, fsOps, valleyVars, castVars,
                   shadowVars, runVars>>

\* the names a caller gives for geom_name: none, a name of its own, or the
\* path of a file of the archive
GeomNames ==
    {[given |-> FALSE, sub |-> "", name |-> NoName],
     [given |-> TRUE, sub |-> "", name |-> CustomName],
     [given |-> TRUE, sub |-> ShapeDir("f"), name |-> ShapeName("f", 1)]}

\* the file systems a call starts in: nothing, the directories, or the
\* directories with the file of the default or the caller's name
InitFileSystem ==
    \E dirs \in SUBSET {Dir("data", ""), Dir("out", "")} :
      \E names \in SUBSET {DefaultName("f", 1), CustomName} :
        /\ names # {} => Dir("data", "") \in dirs
        /\ fsDirs = dirs
        /\ fsFiles = {Join("data", [sub |-> "", name |-> n]) : n \in names}

InitCoastal ==
    /\ valleyIdle
    /\ shadowIdle
    /\ runIdle
    /\ castIdle
    /\ InitFileSystem
    /\ fsOps = <<>>
    /\ calls = 1
    /\ callOut = <<>>
    /\ callPc = "call"
    /\ \/ /\ callFn = "get_coastal_dataset"
          /\ \E g \in GeomNames, isInt \in BOOLEAN, v \in 0..5, res \in {"f", "c", "x"} :
               callArgs = [geom_dir |-> "data", geom_name |-> g,
                           minimal_level |-> [int |-> isInt, v |-> v],
                           resolution |-> res]
       \/ /\ callFn = "get_coastal_polygon_of_tile"
          /\ \E n \in {DefaultName("f", 1), CustomName} :
               callArgs = [out_dir |-> "out", geom_dir |-> "data",
                           geom_name |-> [given |-> TRUE, sub |-> "", name |-> n]]

NextCoastal == GetCoastalDataset \/ GetCoastalPolygonOfTile \/ CallAgain

SpecCoastal == InitCoastal /\ [][NextCoastal]_vars

\* ------------------------------------------------------------------------
\* fast_noise_estimation
\* (src/dhdt/processing/geometric_precision_describtion.py:10-74)
\*
\* callArgs holds the caller's arrays grd_i and grd_j, flattened, which the
\* function gets by reference.  Of the estimate it returns the model keeps
\* where it was taken: for every grid point the centre of its template, in
\* the rows and columns of the image Z the caller handed in.
\* ------------------------------------------------------------------------
MaxTemplate == 4   \* largest width and height of the template
MaxGridLen  == 2   \* largest number of grid points
MaxGrid     == 2   \* largest row and column of a grid point

\* line 46: t_rad = (t_size[0] // 2, t_size[1] // 2)
t_rad(t_size) == <<t_size[1] \div 2, t_size[2] \div 2>>

\* lines 49-50, grd_i += t_rad[0]: the addition is made in the array itself
AddInPlace(a, d) == [k \in DOMAIN a |-> a[k] + d]

\* lines 55 and 58: the preamble divides by (t_size[0]-2) * (t_size[1]-2);
\* with Gaussian a division of Python integers, without it one of a numpy
\* float, which gives inf
noiseRaises(a) ==
    IF a.Gaussian /\ (a.t_size[1] = 2 \/ a.t_size[2] = 2) THEN "ZeroDivisionError" ELSE ""

\* lines 48-50 and 63-70: the template centres, in the padded image the
\* grid points moved by t_rad, in Z the grid points as they came in after
\* the radius of the padding is taken off again
noiseCentres(a) ==
    LET r == t_rad(a.t_size)
        i == AddInPlace(a.grd_i, r[1])
        j == AddInPlace(a.grd_j, r[2])
    IN  [k \in DOMAIN i |-> <<i[k] - r[1], j[k] - r[2]>>]

FastNoiseEstimation ==
    /\ callPc = "call"
    /\ callFn = "fast_noise_estimation"
    /\ callArgs' = [callArgs EXCEPT
                      !.grd_i = AddInPlace(callArgs.grd_i, t_rad(callArgs.t_size)[1]),
                      !.grd_j = AddInPlace(callArgs.grd_j, t_rad(callArgs.t_size)[2])]
    /\ IF noiseRaises(callArgs) # ""
       THEN /\ callPc' = "error"
            /\ callOut' = Append(callOut, [raises |-> noiseRaises(callArgs), at |-> <<>>])
       ELSE /\ callPc' = "done"
            /\ callOut' = Append(callOut, [raises |-> "", at |-> noiseCentres(callArgs)])
    /\ UNCHANGED <<callFn, fsVars, valleyVars, castVars, shadowVars, runVars>>

\* the caller calls once more with the same Z, t_size, grd_i and grd_j; the
\* outcomes of the calls are kept in callOut, one after the other
NoiseAgain ==
    /\ callPc \in {"done", "error"}
    /\ callFn = "fast_noise_estimation"
    /\ calls < MaxCalls
    /\ calls' = calls + 1
    /\ callPc' = "call"
    /\ UNCHANGED <<callFn, callArgs, callOut, fsDirs, fsFiles, fsOps, valleyVars,
                   castVars, shadowVars, runVars>>

InitNoise ==
    /\ valleyIdle
    /\ shadowIdle
    /\ runIdle
    /\ castIdle
    /\ fsDirs = {}
    /\ fsFiles = {}
    /\ fsOps = <<>>
    /\ calls = 1
    /\ callFn = "fast_noise_estimation"
    /\ \E len \in 1..MaxGridLen, h \in 1..MaxTemplate, w \in 1..MaxTemplate, g \in BOOLEAN :
         \E gi \in [1..len -> 0..MaxGrid], gj \in [1..len -> 0..MaxGrid] :
           callArgs = [t_size |-> <<h, w>>, grd_i |-> gi, grd_j |-> gj, Gaussian |-> g]
    /\ callOut = <<>>
    /\ callPc = "call"

NextNoise == FastNoiseEstimation \/ NoiseAgain

SpecNoise == InitNoise /\ [][NextNoise]_vars

\* ------------------------------------------------------------------------
\* make_shadowing (src/dhdt/postprocessing/solar_tools.py:237-298), for
\* az = 0, where ndimage.rotate turns the grid by no angle: Zr has the
\* shape, the values and the dtype of Z, and Mr the shape of Z.
\*
\* Heights are counted in steps of 1/Scale metre, so that the drop dZ of
\* the sun ray per row, tan(90 - zn) * spac, can be a fraction of a metre.
\* A grid of dtype integer holds whole metres only.
\* ------------------------------------------------------------------------
MaxRows   == 4   \* most rows of Z
MaxCols   == 2   \* most columns of Z
MaxCells  == 6   \* most pixels of Z
MaxHeight == 2   \* highest elevation, in metres
MaxDrop   == 2   \* largest dZ, in steps
Scale     == 2   \* steps per metre

\* what a grid of the dtype keeps of the value x written into it: an
\* integer grid drops the fraction (towards zero), a float grid keeps it
AsDtype(dtype, x) ==
    IF dtype = "integer"
    THEN IF x >= 0 THEN (x \div Scale) * Scale ELSE 0 - (((0 - x) \div Scale) * Scale)
    ELSE x

\* lines 284-286, the rows 1 .. m-1 in turn (here 2 .. m):
\*   Mr[i,:] = (Zr[i,:]) < (Zr[i-1,:] - dZ)
\*   Zr[i,:] = np.maximum(Zr[i,:], Zr[i-1,:] - dZ)
RECURSIVE shadowSweep(_, _, _, _, _)
shadowSweep(Zr, Mr, i, dZ, dtype) ==
    IF i > Len(Zr) THEN Mr
    ELSE LET row  == [j \in DOMAIN Zr[i] |-> Zr[i][j] < Zr[i - 1][j] - dZ]
             high == [j \in DOMAIN Zr[i] |->
                        AsDtype(dtype, IF Zr[i][j] >= Zr[i - 1][j] - dZ
                                       THEN Zr[i][j] ELSE Zr[i - 1][j] - dZ)]
         IN  shadowSweep([Zr EXCEPT ![i] = high], [Mr EXCEPT ![i] = row], i + 1, dZ, dtype)

\* lines 290-297: the window of the shape of Z in the middle of Ms
shadowCrop(Ms, m, n) ==
    LET i_min == (Len(Ms) - m) \div 2
        i_max == (Len(Ms) + m) \div 2
        j_min == (Len(Ms[1]) - n) \div 2
        j_max == (Len(Ms[1]) + n) \div 2
    IN  [i \in 1..(i_max - i_min) |-> [j \in 1..(j_max - j_min) |-> Ms[i_min + i][j_min + j]]]

make_shadowing(a) ==
    LET m  == Len(a.Z)
        n  == Len(a.Z[1])
        Mr == [i \in 1..m |-> [j \in 1..n |-> FALSE]]
        Ms == shadowSweep(a.Z, Mr, 2, a.dZ, a.dtype)
    IN  shadowCrop(Ms, m, n)

MakeShadowing ==
    /\ callPc = "call"
    /\ callFn = "make_shadowing"
    /\ callOut' = make_shadowing(callArgs)
    /\ callPc' = "done"
    /\ UNCHANGED <<callFn, callArgs, fsVars, valleyVars, castVars, shadowVars, runVars>>

\* the elevations a grid of the dtype can hold, in steps
Elevations(dtype) ==
    IF dtype = "integer" THEN {Scale * h : h \in 0..MaxHeight} ELSE 0..(Scale * MaxHeight)

InitShadowing ==
    /\ valleyIdle
    /\ shadowIdle
    /\ runIdle
    /\ castIdle
    /\ fsIdle
    /\ callFn = "make_shadowing"
    /\ \E m \in 1..MaxRows, n \in 1..MaxCols, dtype \in {"integer", "float"}, dZ \in 0..MaxDrop :
         /\ m * n <= MaxCells
         /\ \E Z \in [1..m -> [1..n -> Elevations(dtype)]] :
              callArgs = [Z |-> Z, dZ |-> dZ, dtype |-> dtype]
    /\ callOut = <<>>
    /\ callPc = "call"

NextShadowing == MakeShadowing

SpecShadowing == InitShadowing /\ [][NextShadowing]_vars

\* ------------------------------------------------------------------------
\* Claims about findValley
\* ------------------------------------------------------------------------
\* count of bin j (0-based)
Count(j) == values[j + 1]

\* bin i has k real bins on either side and the counts strictly increase
\* moving away from it over them
IsValley(i, k) ==
    /\ i - k >= 0
    /\ i + k <= NBins - 1
    /\ \A m \in 1..k : /\ Count(i - m) > Count(i - m + 1)
                       /\ Count(i + m) > Count(i + m - 1)

DipSet == {dips[m] : m \in DOMAIN dips}

\* C3 (valley monotonicity): every value returned in dips is the base of a
\* bin around which the counts strictly increase outward over k real bins on
\* both sides, without wrap-around.
C3_ValleyMonotone ==
    vpc = "done" =>
        \A d \in DipSet :
            \E i \in 0..(NBins - 1) : base[i + 1] = d /\ IsValley(i, neighbors)

\* C4 (valley completeness): dips holds the base of exactly the bins
\* k <= i <= n-1-k around which the counts strictly increase outward; for the
\* scenario histogram these are bins 2 and 8, and max(dips) is that of bin 8.
C4_ValleyComplete ==
    vpc = "done" =>
        /\ DipSet = {base[i + 1] : i \in {j \in 0..(NBins - 1) : IsValley(j, neighbors)}}
        /\ (values = ScenarioValues /\ neighbors = 2) =>
               /\ dips = <<base[3], base[9]>>
               /\ Max(DipSet) = base[9]

\* ------------------------------------------------------------------------
\* Claims about listOccluderAndCasted
\* ------------------------------------------------------------------------
\* occluder pixel <<row, col>> and casted point <<x, y>> of a record
Occluder(rec) == <<rec[1], rec[2]>>
CastedPoint(rec) == <<rec[4], rec[3]>>

\* the planar point a pixel's cast line starts at
Corner(p) == <<p[2], p[1]>>

\* the positive ids of the label raster
Ids == {labels[p] : p \in Pixels} \ {0}

\* the candidate points of the cast line of pixel p against the polygon of
\* its own id
Candidates(p) ==
    Flatten(intersection(polyRast(labels[p]), p[2], p[1], sunAz[p]))

HasRecord(p) == \E k \in DOMAIN castList : Occluder(castList[k]) = p

C2_SquareScenario ==
    (nRows = 50 /\ nCols = 50 /\ labels[<<10, 10>>] = 1 /\ pc = "done") =>
        /\ {ridgePixels(1)[k] : k \in DOMAIN ridgePixels(1)} = {<<r, 10>> : r \in 10..29}
        /\ Len(castList) = 20
        /\ \A r \in 10..29 : \E k \in DOMAIN castList : castList[k] = <<r, 10, r, 29, 90, 45>>

\* C5 (one record per ridge pixel, indexed by position): the loop reads the
\* ridge arrays at the positions 0, 1, 2, ... in turn and never outside them;
\* the list holds at most one record per ridge pixel, and at the end one for
\* each ridge pixel of the processed polygon with two or more candidates.
C5_IndexedByPosition ==
    /\ err # "IndexError"
    /\ \A k \in DOMAIN visited : visited[k] = k - 1
    /\ \A a, b \in DOMAIN castList :
           Occluder(castList[a]) = Occluder(castList[b]) => a = b
    /\ pc = "done" =>
           \A k \in DOMAIN ridgePixels(FilterLabel) :
               Len(Candidates(ridgePixels(FilterLabel)[k])) >= 2
                   => HasRecord(ridgePixels(FilterLabel)[k])

\* C6 (every labelled polygon is processed): when the call has returned,
\* every ridge pixel of every positive id with two or more candidate points
\* has a record in the list.
C6_EveryPolygonProcessed ==
    pc = "done" =>
        \A v \in Ids :
            \A k \in DOMAIN ridgePixels(v) :
                Len(Candidates(ridgePixels(v)[k])) >= 2 => HasRecord(ridgePixels(v)[k])

\* erosion of a region by the 3 x 3 all-ones element, pixels outside the
\* raster counting as outside the region
Erode3x3(region) ==
    {p \in Pixels :
        \A dr \in -1..1, dc \in -1..1 : <<p[1] + dr, p[2] + dc>> \in region}

\* C7 (boundary invariant): the boundary computed for a polygon is its region
\* less the erosion of the region by the 3 x 3 all-ones element; it lies
\* inside the region and is non-empty for a region of 9 pixels or more.
C7_BoundaryInvariant ==
    val = FilterLabel =>
        LET region == polyRast(val)
        IN  /\ polyBoun = region \ Erode3x3(region)
            /\ polyBoun \subseteq region
            /\ Cardinality(region) >= 9 => polyBoun # {}

\* a boundary was computed for a region of 9 pixels or more with an interior
C7_Witness ==
    /\ val = FilterLabel
    /\ Cardinality(polyRast(val)) >= 9
    /\ polyBoun # polyRast(val)
    /\ polyBoun # {}

\* is the grid point P on the boundary of the closed polygon: in it, and not
\* surrounded by four of its pixels
OnBoundary(poly, P) ==
    /\ PointIn(poly, P)
    /\ \E dr \in {-1, 0}, dc \in {-1, 0} : <<P[2] + dr, P[1] + dc>> \notin poly

\* the square of the largest distance between two points of the polygon; it
\* is attained between corners of pixels on the rim of the polygon
Diameter2(poly) ==
    LET rim     == {p \in poly : \E q \in Nbr8(p) : q \notin poly}
        corners == UNION {{<<p[2] + dc, p[1] + dr>> : dr \in {0, 1}, dc \in {0, 1}} : p \in rim}
    IN  Max({Dist2(a, b) : a \in corners, b \in corners})

C9_InvalidAnglesSkipped ==
    \A k \in DOMAIN castList : castList[k][5] # NaN /\ castList[k][6] # NaN

\* the azimuth is NaN at every pixel of the polygon with the id v
AllNaNAzimuth(v) == \A p \in polyRast(v) : sunAz[p] = NaN

\* C10 (all-NaN azimuth): a polygon at every pixel of which the azimuth is
\* NaN has no record in the list, and the call raises nothing while it is
\* the polygon being processed.
C10_AllNaNAzimuth ==
    \A v \in Ids :
        AllNaNAzimuth(v) =>
            /\ \A k \in DOMAIN castList : labels[Occluder(castList[k])] # v
            /\ val = v => (pc # "error" /\ pc # "ridge")

\* the call has returned after it processed a polygon with an all-NaN azimuth
C10_Witness ==
    /\ pc = "done"
    /\ val = FilterLabel
    /\ polyBoun # {}
    /\ AllNaNAzimuth(FilterLabel)

\* C11 (degenerate intersections are absorbed): a pass of the loop whose
\* intersection is empty or a single point appends no record and raises
\* nothing, and the loop goes on.
C11_DegenerateAbsorbed ==
    (occluder # <<>> /\ Len(castEnd) <= 1) =>
        /\ err = ""
        /\ pc \in {"ridge", "shapes", "done"}

\* ------------------------------------------------------------------------
\* Claims about getShadows
\* ------------------------------------------------------------------------
\* C12 (degenerate histogram): a valley search that finds no valley ends the
\* threshold selection in an explicit DegenerateHistogram outcome, never in
\* an indexing or empty-sequence fault.
C12_DegenerateHistogram ==
    spc = "error" => serr = "DegenerateHistogram"

\* the median filter applied n times in succession
RECURSIVE MedianTimes(_, _, _)
MedianTimes(F, s, n) ==
    IF n = 0 THEN F ELSE MedianTimes(median_filter(F, s), s, n - 1)

\* C13 (iterated smoothing): the field getShadows thresholds is the median
\* filter applied loop times in succession to M, each pass taking the output
\* of the pass before; loop = 0 leaves M unfiltered.
C13_IteratedSmoothing ==
    spc \in {"valley", "label", "done", "error"} =>
        Mmed = MedianTimes(M, siz, loop)

\* C14 (binarization rule): in the returned label raster a pixel has the
\* label 0 if and only if its smoothed value is not greater than T, and a
\* positive label otherwise, T being the largest of the values findValley
\* returned.
C14_BinarizationRule ==
    spc = "done" =>
        LET T == Max({dips[k] : k \in DOMAIN dips})
        IN  \A p \in DOMAIN Mmed :
                /\ labels[p] = 0 <=> Mmed[p] * 2 * Len(values) <= T
                /\ labels[p] # 0 => labels[p] > 0

\* a raster was returned with a background pixel and a labelled pixel
C14_Witness ==
    /\ spc = "done"
    /\ \E p \in DOMAIN Mmed : labels[p] = 0
    /\ \E p \in DOMAIN Mmed : labels[p] > 0

ExtentsDiffer ==
    ShapeOf(sunAz) # <<nRows, nCols>> \/ ShapeOf(sunZn) # <<nRows, nCols>>

\* C17 (structural failures are fatal and distinguishable): with a sun-angle
\* grid of another extent than the label raster the call aborts with an
\* explicit diagnostic of the mismatch before it produces any record, and
\* never returns a list as a valid call does.
C17_ExtentMismatchFatal ==
    ExtentsDiffer =>
        /\ castList = <<>>
        /\ pc \in {"start", "error"}
        /\ pc = "error" => err = "ExtentMismatch"

\* ------------------------------------------------------------------------
\* Claims about the library functions
\* ------------------------------------------------------------------------
\* C18 (make_fourier_grid): both returned grids have the shape (m, n) of the
\* spectrum, for every m, n >= 1 and both indexings.
C18_FourierGridShape ==
    (callFn = "make_fourier_grid" /\ callPc = "done") =>
        /\ ShapeOf(callOut[1]) = <<callArgs.m, callArgs.n>>
        /\ ShapeOf(callOut[2]) = <<callArgs.m, callArgs.n>>

\* the misfits outside the scaled error ellipse
Outliers == {i \in DOMAIN callArgs.dXY : ~bppInside(callArgs.dXY, callArgs.r, i)}

\* C19 (bad_point_propagation): the returned BPP lies in the range 0...1 and
\* is the number of outliers divided by the number of points k.
C19_BadPointProportion ==
    (callFn = "bad_point_propagation" /\ callPc = "done" /\ covDet(callArgs.dXY) # 0) =>
        /\ 0 <= callOut.num
        /\ callOut.num <= callOut.den
        /\ callOut.num * Len(callArgs.dXY) = Cardinality(Outliers) * callOut.den

\* the polygon fills its bounding box, which is at least 2 pixels each way
IsRectangle(poly) ==
    /\ poly # {}
    /\ LET rows == {q[1] : q \in poly}
           cols == {q[2] : q \in poly}
       IN  /\ poly = rows \X cols
           /\ Cardinality(rows) >= 2
           /\ Cardinality(cols) >= 2
           /\ \A r \in rows : r = Min(rows) \/ r - 1 \in rows
           /\ \A c \in cols : c = Min(cols) \/ c - 1 \in cols

\* the pixel one step from the pixel p along the cast direction
\* (-sin(az), +cos(az)) in (col, row)
StepAlongRay(p) == <<p[1] + CosUnit(sunAz[p]), p[2] - SinUnit(sunAz[p])>>

\* C20 (castOrientation, listOccluderAndCasted): for a rectangular polygon
\* and the azimuths 0, 90, 180 and 270, the pixel one step from each ridge
\* pixel along the cast ray belongs to the polygon.
C20_RidgeFacesInward ==
    (pc = "ridge" /\ IsRectangle(polygoon)) =>
        \A k \in DOMAIN ridgeI :
            StepAlongRay(<<ridgeI[k], ridgeJ[k]>>) \in polygoon

\* C21 (listOccluderAndCasted): the mask the orientation field is computed
\* over and the polygons are extracted from holds exactly the pixels whose
\* label id is positive; only the id 0 is background.
C21_MaskCoversPositive ==
    pc \in {"shapes", "ridge", "done"} =>
        /\ msk = {p \in Pixels : labels[p] >= 1}
        /\ \A p \in Pixels :
             labels[p] >= 1 =>
               \E k \in 1..Len(shapes) : p \in shapes[k].shp

\* the candidates of pixel p that are not at the start of its cast line
AwayCandidates(p) ==
    {Candidates(p)[m] : m \in {n \in DOMAIN Candidates(p) :
                                  Dist2(Candidates(p)[n], Corner(p)) # 0}}

\* C22 (nearest crossing wins): the casted point of every record is a
\* candidate of its occluder at nonzero distance, and no candidate is at a
\* smaller nonzero distance, also for an intersection of several segments.
C22_NearestCrossing ==
    \A k \in DOMAIN castList :
        LET p == Occluder(castList[k])
            c == CastedPoint(castList[k])
        IN  /\ c \in AwayCandidates(p)
            /\ \A q \in AwayCandidates(p) :
                 Dist2(c, Corner(p)) <= Dist2(q, Corner(p))

\* a record was appended for a cast line that crosses the polygon in two
\* segments, with candidates at several nonzero distances
C22_Witness ==
    /\ pc = "done"
    /\ \E k \in DOMAIN castList :
         LET p == Occluder(castList[k])
         IN  /\ geom_type(intersection(polyRast(labels[p]), p[2], p[1], sunAz[p]))
                   = "MultiLineString"
             /\ Cardinality(AwayCandidates(p)) >= 2

\* the polygon holds no 3 x 3 block of pixels: the structuring element of
\* the erosion does not fit in it
IsTiny(poly) == poly # {} /\ ~\E p \in poly : Nbr8(p) \subseteq poly

\* C23 (tiny polygons are skipped): a polygon smaller than the 3 x 3
\* structuring element has an empty boundary pixel set and an empty ridge
\* set, and gets no cast attempt and no record.
C23_TinyPolygonSkipped ==
    (val = FilterLabel /\ IsTiny(polygoon)) =>
        /\ polyBoun = {}
        /\ ridgeI = <<>>
        /\ visited = <<>>
        /\ castList = <<>>

\* b = ceil(1.6 * (log2(N) + 1)): 5b - 8 >= 8 * log2(N) > 5(b - 1) - 8
IsSturge(b, N) ==
    /\ PowerOfTwoAtLeast(5 * b - 8, N ^ 8)
    /\ ~PowerOfTwoAtLeast(5 * (b - 1) - 8, N ^ 8)

\* the number of pixels of the field of the call
PixelCount == callArgs.shape[1] * callArgs.shape[2]

ValidCoastalArgs ==
    /\ callArgs.minimal_level.int
    /\ callArgs.minimal_level.v \in 1..4
    /\ callArgs.resolution \in {"f", "h", "i", "l", "c"}

\* the file geom_dir/geom_name of the call
TargetFile ==
    IF callArgs.geom_name.given
    THEN [dir |-> callArgs.geom_dir, sub |-> callArgs.geom_name.sub,
          name |-> callArgs.geom_name.name]
    ELSE [dir |-> callArgs.geom_dir, sub |-> "",
          name |-> [stem |-> "GSHHS", res |-> callArgs.resolution,
                    level |-> callArgs.minimal_level.v, ext |-> "geojson"]]

Downloads == Cardinality({k \in DOMAIN fsOps : fsOps[k].op = "download"})

FileSystemUnchanged ==
    /\ fsDirs' = fsDirs
    /\ fsFiles' = fsFiles
    /\ fsOps' = fsOps

C27_ValidatesBeforeActing ==
    [][(/\ callFn = "get_coastal_dataset"
        /\ callPc = "call"
        /\ ~ValidCoastalArgs)
         => (/\ callPc' = "error"
             /\ callOut' \in {"please provide an integer",
                              "please provide correct detail",
                              "please provide correct letter"}
             /\ FileSystemUnchanged)]_vars

\* a call with minimal_level = 0 has failed where geom_dir does not exist
C27_Witness ==
    /\ callFn = "get_coastal_dataset"
    /\ callPc = "error"
    /\ callArgs.minimal_level.int
    /\ callArgs.minimal_level.v = 0
    /\ callOut = "please provide correct detail"
    /\ [dir |-> callArgs.geom_dir, sub |-> ""] \notin fsDirs

\* C28 (get_coastal_polygon_of_tile fails without side effects): a call
\* that fails with 'make sure data is present' has left the file system as
\* it was: no output directory and no output file has been made.
C28_FailsWithoutSideEffects ==
    (/\ callFn = "get_coastal_polygon_of_tile"
     /\ calls = 1
     /\ callPc = "error"
     /\ callOut = "make sure data is present")
        => fsOps = <<>>

\* C29 (fast_noise_estimation does not modify its arguments): no call
\* changes the values of the caller's arrays grd_i and grd_j, so two calls
\* in a row with the same arguments take the variance at the same grid
\* locations.
C29_ArgumentsUnchanged ==
    /\ [][(callFn = "fast_noise_estimation" /\ callPc = "call")
            => (/\ callArgs'.grd_i = callArgs.grd_i
                /\ callArgs'.grd_j = callArgs.grd_j)]_vars
    /\ []((callFn = "fast_noise_estimation" /\ Len(callOut) = 2)
            => callOut[2] = callOut[1])


\* ------------------------------------------------------------------------
\* Claims about make_shadowing
\* ------------------------------------------------------------------------
\* the sun ray that leaves row k passes above the pixel in row i of column j
RayAbove(Z, dZ, k, i, j) == Z[k][j] - (i - k) * dZ > Z[i][j]

\* C30 (make_shadowing sweep, az = 0): the returned grid has the rows and
\* columns of Z; its first row is never flagged, and a pixel of a later
\* row i is flagged exactly if the ray of some earlier row k < i of its
\* column passes above it, Z[k] - (i-k)*dZ > Z[i].
C30_ShadowSweep ==
    (callFn = "make_shadowing" /\ callPc = "done") =>
        LET Z == callArgs.Z
        IN  /\ Len(callOut) = Len(Z)
            /\ \A i \in DOMAIN Z :
                 /\ Len(callOut[i]) = Len(Z[i])
                 /\ \A j \in DOMAIN Z[i] :
                      callOut[i][j] <=> \E k \in 1..(i - 1) : RayAbove(Z, callArgs.dZ, k, i, j)

=============================================================================
